---- MODULE Spec2Model ----
(***************************************************************************)
(* Model of the plugin-migration scripts of configjs (scripts/*.py).       *)
(*                                                                         *)
(* Text is a sequence of lexemes: every punctuation character, quote mark, *)
(* backslash and blank is one element, and a word (async, detect, name,    *)
(* Promise, x ...) stands for its letters, none of which any pattern of    *)
(* the scripts treats specially.  Positions are 1-based: position p of the *)
(* model is index p-1 of the Python string.  An Optional[str] is <<>> for  *)
(* None and <<t>> for the text t.                                          *)
(***************************************************************************)
EXTENDS Integers, Sequences, FiniteSets, TLC

VARIABLES
    content,      \* extract_function: its argument content
    pc,           \* extract_function: "start", "scan" or "done"
    start,        \* extract_function: match.start() (1-based), 0 before the search
    start_brace,  \* extract_function: position of the brace the scan starts after
    pos,          \* extract_function: scan position
    brace_count,  \* extract_function: nesting depth
    in_string,    \* extract_function: quoted-span flag
    escape,       \* extract_function: escape flag
    result,       \* extract_function: the returned Optional[str]
    metadata,     \* extract_plugin_metadata: the returned dict, per script
    builder,      \* generate_builder_code: the returned text, per script
    fs,           \* PLUGINS_DIR: the files of its directories, path |-> content
    program,      \* the generator script that is run
    argv,         \* its command line arguments
    plugins,      \* main: the dict of find_all_plugins, in insertion order
    todo,         \* main: the keys the loop has still to visit
    generated,    \* main: generated
    failed,       \* main: failed (generate-builders-final.py)
    printed,      \* main: the result lines printed by the loop
    exit_status,  \* the status of the last run of the script
    runs_log,     \* per finished run: what it discovered, the builder files after it
    registry,     \* generate-registry.py: the registry text written
    registry_log, \* the texts its runs wrote since the tree last changed
    pluginRegistry,     \* registry.ts: the collection pluginRegistry
    cursor,             \* validateRegistry: the place of its loop in the collection
    validPlugins,       \* validateRegistry: validPlugins
    invalidPlugins,     \* validateRegistry: invalidPlugins
    warning,            \* validateRegistry: the list given to logger.warn
    validatedRegistry,  \* registry.ts: validatedRegistry, None before the load
    answer              \* the last call of a query and what it returned

scanVars == <<start, start_brace, pos, brace_count, in_string, escape, result>>

batchVars == <<fs, program, argv, plugins, todo, generated, failed, printed,
               exit_status, runs_log, registry, registry_log>>

loadVars == <<pluginRegistry, cursor, validPlugins, invalidPlugins, warning,
              validatedRegistry, answer>>

vars == <<content, pc, scanVars, metadata, builder, batchVars, loadVars>>

---------------------------------------------------------------------------
(* Bounds of the model.                                                    *)

\* longest callback text after the signature, in lexemes
MaxBody == 4

\* longest declared plugin name of the texts given to extract_plugin_metadata
\* and to generate_builder_code alone, in lexemes
MaxName == 3

\* longest callback text of the calls that are followed to their end
MaxRunBody == 3

\* runs of a generator script over one tree
MaxRuns == 2

\* runs of generate-registry.py over one state of the tree
MaxAssemblies == 2

---------------------------------------------------------------------------
(* Text helpers.                                                           *)

None == <<>>

Some(t) == <<t>>

\* the lexemes of the double quote, the single quote, the backtick, the backslash
DQ == "dquote"

SQ == "squote"

BQ == "backtick"

BS == "backslash"

\* the blanks: what \s matches
WS == {" ", "\n"}

\* line 51 without the backtick: template literals are not seen as quoted
QuoteChars_NoBacktick == {DQ, SQ}

\* the three quote marks of extract_function, line 51
QuoteChars == {DQ, SQ, BQ}

\* F applied to the value of e, with e evaluated once
Bind(e, F(_)) == CHOOSE r \in {F(v) : v \in {e}} : TRUE

Min(S) == Bind(S, LAMBDA T : CHOOSE m \in T : \A n \in T : m <= n)

Max(S) == Bind(S, LAMBDA T : CHOOSE m \in T : \A n \in T : n <= m)

\* all sequences over S of length at most n
SeqsUpTo(S, n) == UNION {[1..k -> S] : k \in 0..n}

\* c[i..j] as c[i-1:j] of the script; empty when j < i
Slice(c, i, j) == SubSeq(c, i, j)

\* the first position >= i whose lexeme is not in S (Len(c)+1 when none is)
SkipWhile(c, i, S) == Min({j \in i..(Len(c) + 1) : j = Len(c) + 1 \/ c[j] \notin S})

\* the first position >= i whose lexeme is in S, 0 when there is none: str.find
FindFrom(c, i, S) ==
    LET hits == {j \in i..Len(c) : c[j] \in S}
    IN  IF hits = {} THEN 0 ELSE Min(hits)

\* whether c holds lexeme x at position i
At(c, i, x) == i >= 1 /\ i <= Len(c) /\ c[i] = x

---------------------------------------------------------------------------
(* extract_function, migrate-plugins-advanced.py lines 15-66.              *)

\* The pattern of line 18 tried at position i:
\*   async\s+{func_name}\s*\([^)]*\)\s*:\s*Promise<[^>]+>\s*\{
\* The position of the brace that ends the match, 0 when there is no match at i.
\* No step of the pattern can match in two ways, so there is no backtracking.
AnchorEndAt(c, func_name, i) ==
    IF ~At(c, i, "async") \/ ~(i + 1 <= Len(c) /\ c[i + 1] \in WS) THEN 0
    ELSE LET n == SkipWhile(c, i + 1, WS)
         IN IF ~At(c, n, func_name) THEN 0
            ELSE LET lp == SkipWhile(c, n + 1, WS)
                 IN IF ~At(c, lp, "(") THEN 0
                    ELSE LET rp == FindFrom(c, lp + 1, {")"})
                         IN IF rp = 0 THEN 0
                            ELSE LET col == SkipWhile(c, rp + 1, WS)
                                 IN IF ~At(c, col, ":") THEN 0
                                    ELSE LET pr == SkipWhile(c, col + 1, WS)
                                         IN IF ~At(c, pr, "Promise") \/ ~At(c, pr + 1, "<") THEN 0
                                            ELSE LET gt == FindFrom(c, pr + 2, {">"})
                                                 IN IF gt = 0 \/ gt = pr + 2 THEN 0
                                                    ELSE LET br == SkipWhile(c, gt + 1, WS)
                                                         IN IF At(c, br, "{") THEN br ELSE 0

\* re.search(pattern, content): the start of the leftmost match, 0 when none
AnchorSearch(c, func_name) ==
    LET starts == {i \in 1..Len(c) : AnchorEndAt(c, func_name, i) # 0}
    IN  IF starts = {} THEN 0 ELSE Min(starts)

\* the state of the scan loop
ScanState(p, bc, ins, esc, done, res) ==
    [pos |-> p, brace_count |-> bc, in_string |-> ins, escape |-> esc,
     done |-> done, result |-> res]

\* lines 24-36 with the result taken from the brace: start = start_brace
ScanInit_FromBrace(c, func_name) ==
    Bind(AnchorSearch(c, func_name), LAMBDA st :
    Bind(IF st = 0 THEN 0 ELSE FindFrom(c, st, {"{"}), LAMBDA sb :
        IF st = 0 \/ sb = 0
        THEN [start |-> st, start_brace |-> sb, scan |-> ScanState(0, 0, FALSE, FALSE, TRUE, None)]
        ELSE [start |-> sb, start_brace |-> sb,
              scan |-> ScanState(sb + 1, 0, FALSE, FALSE, FALSE, None)]))

\* lines 19-36: the search, the find of the first brace, the loop's initial state
ScanInit(c, func_name) ==
    Bind(AnchorSearch(c, func_name), LAMBDA st :
    Bind(IF st = 0 THEN 0 ELSE FindFrom(c, st, {"{"}), LAMBDA sb :
        IF st = 0 \/ sb = 0
        THEN [start |-> st, start_brace |-> sb, scan |-> ScanState(0, 0, FALSE, FALSE, TRUE, None)]
        ELSE [start |-> st, start_brace |-> sb,
              scan |-> ScanState(sb + 1, 0, FALSE, FALSE, FALSE, None)]))

\* lines 38-66 without the test of line 56: braces count inside quoted spans
ScanStep_IgnoresInString(c, st, s) ==
    IF s.pos > Len(c) THEN [s EXCEPT !.done = TRUE, !.result = None]
    ELSE LET char == c[s.pos]
         IN IF s.escape THEN [s EXCEPT !.escape = FALSE, !.pos = s.pos + 1]
            ELSE IF char = BS THEN [s EXCEPT !.escape = TRUE, !.pos = s.pos + 1]
            ELSE IF char \in QuoteChars
                 THEN [s EXCEPT !.in_string = ~s.in_string, !.pos = s.pos + 1]
            ELSE IF char = "{"
                 THEN [s EXCEPT !.brace_count = s.brace_count + 1, !.pos = s.pos + 1]
            ELSE IF char = "}"
                 THEN IF s.brace_count = 0
                      THEN [s EXCEPT !.done = TRUE, !.result = Some(Slice(c, st, s.pos))]
                      ELSE [s EXCEPT !.brace_count = s.brace_count - 1, !.pos = s.pos + 1]
            ELSE [s EXCEPT !.pos = s.pos + 1]

\* lines 38-66 with the test of line 46 made in a quoted span only
ScanStep_EscapeInSpanOnly(c, st, s) ==
    IF s.pos > Len(c) THEN [s EXCEPT !.done = TRUE, !.result = None]
    ELSE LET char == c[s.pos]
         IN IF s.escape THEN [s EXCEPT !.escape = FALSE, !.pos = s.pos + 1]
            ELSE IF char = BS /\ s.in_string
                 THEN [s EXCEPT !.escape = TRUE, !.pos = s.pos + 1]
            ELSE IF char \in QuoteChars
                 THEN [s EXCEPT !.in_string = ~s.in_string, !.pos = s.pos + 1]
            ELSE IF ~s.in_string /\ char = "{"
                 THEN [s EXCEPT !.brace_count = s.brace_count + 1, !.pos = s.pos + 1]
            ELSE IF ~s.in_string /\ char = "}"
                 THEN IF s.brace_count = 0
                      THEN [s EXCEPT !.done = TRUE, !.result = Some(Slice(c, st, s.pos))]
                      ELSE [s EXCEPT !.brace_count = s.brace_count - 1, !.pos = s.pos + 1]
            ELSE [s EXCEPT !.pos = s.pos + 1]

\* lines 38-66 without the return of line 61: every closing brace is counted
ScanStep_NoReturn(c, st, s) ==
    IF s.pos > Len(c) THEN [s EXCEPT !.done = TRUE, !.result = None]
    ELSE LET char == c[s.pos]
         IN IF s.escape THEN [s EXCEPT !.escape = FALSE, !.pos = s.pos + 1]
            ELSE IF char = BS THEN [s EXCEPT !.escape = TRUE, !.pos = s.pos + 1]
            ELSE IF char \in QuoteChars
                 THEN [s EXCEPT !.in_string = ~s.in_string, !.pos = s.pos + 1]
            ELSE IF ~s.in_string /\ char = "{"
                 THEN [s EXCEPT !.brace_count = s.brace_count + 1, !.pos = s.pos + 1]
            ELSE IF ~s.in_string /\ char = "}"
                 THEN [s EXCEPT !.brace_count = s.brace_count - 1, !.pos = s.pos + 1]
            ELSE [s EXCEPT !.pos = s.pos + 1]

\* lines 38-66: one pass of the while loop from state s (the return included)
ScanStep(c, st, s) ==
    IF s.pos > Len(c) THEN [s EXCEPT !.done = TRUE, !.result = None]
    ELSE LET char == c[s.pos]
         IN IF s.escape THEN [s EXCEPT !.escape = FALSE, !.pos = s.pos + 1]
            ELSE IF char = BS THEN [s EXCEPT !.escape = TRUE, !.pos = s.pos + 1]
            ELSE IF char \in QuoteChars
                 THEN [s EXCEPT !.in_string = ~s.in_string, !.pos = s.pos + 1]
            ELSE IF ~s.in_string /\ char = "{"
                 THEN [s EXCEPT !.brace_count = s.brace_count + 1, !.pos = s.pos + 1]
            ELSE IF ~s.in_string /\ char = "}"
                 THEN IF s.brace_count = 0
                      THEN [s EXCEPT !.done = TRUE, !.result = Some(Slice(c, st, s.pos))]
                      ELSE [s EXCEPT !.brace_count = s.brace_count - 1, !.pos = s.pos + 1]
            ELSE [s EXCEPT !.pos = s.pos + 1]

RECURSIVE ScanLoop(_, _, _)
ScanLoop(c, st, s) ==
    IF s.done THEN s.result
    ELSE Bind(ScanStep(c, st, s), LAMBDA n : ScanLoop(c, st, n))

\* extract_function(content, func_name) as a whole
extract_function(c, func_name) ==
    Bind(ScanInit(c, func_name), LAMBDA i : ScanLoop(c, i.start, i.scan))

---------------------------------------------------------------------------
(* extract_plugin_metadata: generate-builders-final.py lines 23-84,        *)
(* migrate-plugins.py lines 23-90, migrate-plugins-advanced.py lines 68-135.*)

\* the three scripts that generate builders
Scripts == {"final", "basic", "advanced"}

\* the quote marks of the metadata patterns: ['\"]
MetaQuotes == {DQ, SQ}

\* The lexemes whose letters end with the letters of key: a pattern that starts
\* with a key is not anchored at a word boundary, so name: is also found at the
\* end of hostname: (and not in displayName:, whose N is a capital).
KeyLexemes(key) == IF key = "name" THEN {"name", "hostname"} ELSE {key}

\* the scalar pattern with (\w+) for its group: the value ends at the first
\* character that is no letter
ScalarGroupAt_WordOnly(c, key, i) ==
    IF ~(i <= Len(c) /\ c[i] \in KeyLexemes(key)) \/ ~At(c, i + 1, ":") THEN None
    ELSE LET q == SkipWhile(c, i + 2, WS)
         IN IF ~(q <= Len(c) /\ c[q] \in MetaQuotes) THEN None
            ELSE LET e == SkipWhile(c, q + 1, {"a", "b", "x"})
                 IN IF e = q + 1 \/ ~(e <= Len(c) /\ c[e] \in MetaQuotes) THEN None
                    ELSE Some(Slice(c, q + 1, e - 1))

\* key:\s*['\"]([^'\"]+)['\"] tried at position i: group 1, None without a match
ScalarGroupAt(c, key, i) ==
    IF ~(i <= Len(c) /\ c[i] \in KeyLexemes(key)) \/ ~At(c, i + 1, ":") THEN None
    ELSE LET q == SkipWhile(c, i + 2, WS)
         IN IF ~(q <= Len(c) /\ c[q] \in MetaQuotes) THEN None
            ELSE LET e == FindFrom(c, q + 1, MetaQuotes)
                 IN IF e = 0 \/ e = q + 1 THEN None ELSE Some(Slice(c, q + 1, e - 1))

\* re.search of the scalar pattern and group(1) of the leftmost match
ScalarField(c, key) ==
    LET hits == {i \in 1..Len(c) : ScalarGroupAt(c, key, i) # None}
    IN  IF hits = {} THEN None ELSE ScalarGroupAt(c, key, Min(hits))

\* the category tags: words of capitals and underscores
CategoryTags == {"HTTP", "STATE"}

\* category:\s*Category\.([A-Z_]+)
CategoryField(c) ==
    LET tagAt(i) ==
            LET k == SkipWhile(c, i + 2, WS)
            IN IF At(c, i, "category") /\ At(c, i + 1, ":") /\ At(c, k, "Category")
                  /\ At(c, k + 1, ".") /\ k + 2 <= Len(c) /\ c[k + 2] \in CategoryTags
               THEN Some(c[k + 2]) ELSE None
        hits == {i \in 1..Len(c) : tagAt(i) # None}
    IN  IF hits = {} THEN None ELSE tagAt(Min(hits))

\* re.findall(r"['\"]([^'\"]+)['\"]", s): the groups of the successive matches
RECURSIVE FindAllQuoted(_, _)
FindAllQuoted(s, i) ==
    LET closer(j) == FindFrom(s, j + 1, MetaQuotes)
        hits == {j \in i..Len(s) : s[j] \in MetaQuotes /\ closer(j) \notin {0, j + 1}}
    IN  IF hits = {} THEN <<>>
        ELSE LET j == Min(hits)
             IN <<Slice(s, j + 1, closer(j) - 1)>> \o FindAllQuoted(s, closer(j) + 1)

\* key:\s*\[([^\]]+)\] (least = 1, frameworks) or key:\s*\[([^\]]*)\] (least = 0):
\* the quoted tokens of the bracketed span of the leftmost match, <<>> without one
ListField(c, key, least) ==
    LET spanAt(i) ==
            LET lb == SkipWhile(c, i + 2, WS)
                rb == FindFrom(c, lb + 1, {"]"})
            IN IF At(c, i, key) /\ At(c, i + 1, ":") /\ At(c, lb, "[")
                  /\ rb # 0 /\ rb - lb - 1 >= least
               THEN Some(Slice(c, lb + 1, rb - 1)) ELSE None
        hits == {i \in 1..Len(c) : spanAt(i) # None}
    IN  IF hits = {} THEN <<>> ELSE FindAllQuoted(spanAt(Min(hits))[1], 1)

\* the fields every script extracts
MetadataOf(c) ==
    [name |-> ScalarField(c, "name"),
     displayName |-> ScalarField(c, "displayName"),
     description |-> ScalarField(c, "description"),
     category |-> CategoryField(c),
     frameworks |-> ListField(c, "frameworks", 1),
     incompatibleWith |-> ListField(c, "incompatibleWith", 0),
     requires |-> ListField(c, "requires", 0),
     recommends |-> ListField(c, "recommends", 0)]

\* migrate-plugins.py and migrate-plugins-advanced.py also extract version
WithVersion(m, c) ==
    [k \in DOMAIN m \cup {"version"} |->
        IF k = "version" THEN ScalarField(c, "version") ELSE m[k]]

\* extract_plugin_metadata of script
extract_plugin_metadata(script, c) ==
    IF script = "final" THEN MetadataOf(c) ELSE WithVersion(MetadataOf(c), c)

---------------------------------------------------------------------------
(* The builder text: generate_builder_code_simple (generate-builders-      *)
(* final.py lines 96-184), generate_builder_code (migrate-plugins.py lines *)
(* 117-209, migrate-plugins-advanced.py lines 158-247).                    *)
(* The text is kept as what the template is filled with: the exported      *)
(* identifier, the metadata fields, and the callback steps in the order    *)
(* they are written.  The fixed lines of a template go with its script.    *)

\* s without the lexemes of S: the chained str.replace(ch, '')
RECURSIVE RemoveChars(_, _)
RemoveChars(s, S) ==
    IF s = <<>> THEN <<>>
    ELSE (IF Head(s) \in S THEN <<>> ELSE <<Head(s)>>) \o RemoveChars(Tail(s), S)

\* the characters each script removes from the name: final line 127, basic
\* line 173, advanced line 239
Stripped(script) == IF script = "final" THEN {"@", "/", "-"} ELSE {"@", "/"}

\* the exported identifier
PluginVarName(script, name) == RemoveChars(name, Stripped(script)) \o <<"Plugin">>

\* the callback roles in the order of the template, and their steps
Roles == <<"detect", "install", "configure">>

StepOf(role) ==
    CASE role = "detect" -> "withDetect"
      [] role = "install" -> "withInstall"
      [] role = "configure" -> "withConfigure"

\* a step whose body is the template's default for name
DefaultStep(role, name) == [step |-> StepOf(role), kind |-> "default", body |-> name]

\* str.strip()
Strip(t) ==
    LET keep == {j \in 1..Len(t) : t[j] \notin WS}
    IN  IF keep = {} THEN <<>> ELSE Slice(t, Min(keep), Max(keep))

\* async\s+{role}\s*\([^)]*\)[^{]*\{(.*)\} with re.DOTALL tried at position i:
\* group 1, None without a match (advanced lines 199, 209, 219)
BodyGroupAt(f, role, i) ==
    IF ~At(f, i, "async") \/ ~(i + 1 <= Len(f) /\ f[i + 1] \in WS) THEN None
    ELSE LET n == SkipWhile(f, i + 1, WS)
             lp == SkipWhile(f, n + 1, WS)
             rp == FindFrom(f, lp + 1, {")"})
             lb == IF rp = 0 THEN 0 ELSE FindFrom(f, rp + 1, {"{"})
             closers == {j \in (lb + 1)..Len(f) : f[j] = "}"}
         IN IF At(f, n, role) /\ At(f, lp, "(") /\ rp # 0 /\ lb # 0 /\ closers # {}
            THEN Some(Slice(f, lb + 1, Max(closers) - 1)) ELSE None

\* re.search of the body pattern in the extracted function text
BodySearch(f, role) ==
    LET hits == {i \in 1..Len(f) : BodyGroupAt(f, role, i) # None}
    IN  IF hits = {} THEN None ELSE BodyGroupAt(f, role, Min(hits))

\* advanced lines 195-224: the step of one role, <<>> when the code builds
\* none (the function was extracted and the body pattern does not match it)
CallbackCode(c, role, name) ==
    Bind(extract_function(c, role), LAMBDA func :
        IF func # None
        THEN Bind(BodySearch(func[1], role), LAMBDA body :
                IF body # None
                THEN <<[step |-> StepOf(role), kind |-> "extracted",
                        body |-> Strip(body[1])]>>
                ELSE <<>>)
        ELSE <<DefaultStep(role, name)>>)

\* the callback steps of each template
CallbackSteps(script, m, c) ==
    IF script = "advanced"
    THEN Bind([r \in 1..3 |-> CallbackCode(c, Roles[r], m.name[1])],
              LAMBDA code : code[1] \o code[2] \o code[3])
    ELSE [r \in 1..3 |-> DefaultStep(Roles[r], m.name[1])]

\* The text returned for metadata m and source text c, or the exception raised:
\* with no name, the name's .replace raises AttributeError.
generate_builder_code(script, m, c) ==
    IF m.name = None THEN [raised |-> TRUE, text |-> "AttributeError"]
    ELSE [raised |-> FALSE,
          text |-> [template |-> script,
                    export |-> PluginVarName(script, m.name[1]),
                    metadata |-> m,
                    steps |-> CallbackSteps(script, m, c)]]

---------------------------------------------------------------------------
(* The texts extract_function is run on.                                   *)

BodyChars == {"{", "}", DQ, SQ, BQ, BS, "x"}

SigPlain ==
    <<"async", " ", "detect", "(", "x", ")", ":", " ", "Promise", "<", "x", ">", " ", "{">>

\* text before the signature, an opening brace in it
SigAfterText == <<"{", " ">> \o SigPlain

\* detect(ctx) { : no async, no return type, so no anchor
SigNoAnchor == <<"detect", "(", "x", ")", " ", "{">>

\* a destructured parameter: braces inside the parameter list
SigBraceParam ==
    <<"async", " ", "detect", "(", "{", "x", "}", ")", ":", " ", "Promise", "<", "x", ">", " ", "{">>

\* an object type as return type: braces inside Promise<...>
SigBraceRet ==
    <<"async", " ", "detect", "(", ")", ":", " ", "Promise", "<", "{", "x", "}", ">", " ", "{">>

Signatures == {SigPlain, SigAfterText, SigNoAnchor, SigBraceParam, SigBraceRet}

ScanContents == {sig \o body : sig \in Signatures, body \in SeqsUpTo(BodyChars, MaxBody)}

---------------------------------------------------------------------------
(* Specification of a call extract_function(content, "detect").            *)

\* registry.ts is not loaded
LoadIdle ==
    /\ pluginRegistry = <<>>
    /\ cursor = 0
    /\ validPlugins = <<>>
    /\ invalidPlugins = <<>>
    /\ warning = None
    /\ validatedRegistry = None
    /\ answer = None

\* no script is run
BatchIdle ==
    /\ fs = <<>>
    /\ program = ""
    /\ argv = <<>>
    /\ plugins = <<>>
    /\ todo = <<>>
    /\ generated = 0
    /\ failed = <<>>
    /\ printed = <<>>
    /\ exit_status = None
    /\ runs_log = <<>>
    /\ registry = None
    /\ registry_log = <<>>

ScanVarsOf(s) ==
    /\ pos' = s.pos
    /\ brace_count' = s.brace_count
    /\ in_string' = s.in_string
    /\ escape' = s.escape
    /\ result' = s.result
    /\ pc' = IF s.done THEN "done" ELSE "scan"

InitScan ==
    /\ content \in ScanContents
    /\ pc = "start"
    /\ start = 0
    /\ start_brace = 0
    /\ pos = 0
    /\ brace_count = 0
    /\ in_string = FALSE
    /\ escape = FALSE
    /\ result = None
    /\ metadata = None
    /\ builder = None
    /\ BatchIdle
    /\ LoadIdle

\* lines 18-36
ExtractBegin ==
    /\ pc = "start"
    /\ \E i \in {ScanInit(content, "detect")} :
          /\ start' = i.start
          /\ start_brace' = i.start_brace
          /\ ScanVarsOf(i.scan)
    /\ UNCHANGED <<loadVars, content, metadata, builder, batchVars>>

\* lines 38-66, one pass
ExtractScan ==
    /\ pc = "scan"
    /\ \E s \in {ScanStep(content, start,
                         ScanState(pos, brace_count, in_string, escape, FALSE, result))} :
          ScanVarsOf(s)
    /\ UNCHANGED <<loadVars, content, start, start_brace, metadata, builder, batchVars>>

NextScan == ExtractBegin \/ ExtractScan

SpecScan == InitScan /\ [][NextScan]_vars

\* the texts of the calls that are followed to their end
RunContents ==
    {sig \o body : sig \in Signatures, body \in SeqsUpTo(BodyChars, MaxRunBody)}

InitScanRuns ==
    /\ content \in RunContents
    /\ pc = "start"
    /\ start = 0
    /\ start_brace = 0
    /\ pos = 0
    /\ brace_count = 0
    /\ in_string = FALSE
    /\ escape = FALSE
    /\ result = None
    /\ metadata = None
    /\ builder = None
    /\ BatchIdle
    /\ LoadIdle

\* the call runs on: a pass of the loop that can be made is made
SpecScanRuns == InitScanRuns /\ [][NextScan]_vars /\ WF_vars(NextScan)

---------------------------------------------------------------------------
(* Specification of a call extract_plugin_metadata(content) in each script.*)

\* the characters of plugin names
NameChars == {"a", "-", "@", "/"}

\* what may stand before the declaration
MetaBefore ==
    {<<>>,
     <<"displayName", ":", " ", SQ, "x", SQ, ",", "\n">>,
     <<"name", ":", " ", "x", ",", "\n">>,
     <<"hostname", ":", " ", SQ, "x", SQ, ",", "\n">>}

\* what may stand after it
MetaAfter == {<<>>, <<",", "\n", "version", ":", " ", SQ, "x", SQ>>}

\* key: 'x', with either quote mark on either side, with and without a blank
MetaContents ==
    {pre \o <<key, ":">> \o ws \o <<q1>> \o x \o <<q2>> \o post :
        pre \in MetaBefore, key \in {"name", "displayName"}, ws \in {<<>>, <<" ">>},
        q1 \in MetaQuotes, x \in SeqsUpTo(NameChars, MaxName), q2 \in MetaQuotes,
        post \in MetaAfter}

ScanIdle ==
    /\ start = 0
    /\ start_brace = 0
    /\ pos = 0
    /\ brace_count = 0
    /\ in_string = FALSE
    /\ escape = FALSE
    /\ result = None

InitMeta ==
    /\ content \in MetaContents
    /\ pc = "start"
    /\ ScanIdle
    /\ metadata = None
    /\ builder = None
    /\ BatchIdle
    /\ LoadIdle

ExtractMetadata ==
    /\ pc = "start"
    /\ metadata' = [s \in Scripts |-> extract_plugin_metadata(s, content)]
    /\ pc' = "done"
    /\ UNCHANGED <<loadVars, content, scanVars, builder, batchVars>>

NextMeta == ExtractMetadata

SpecMeta == InitMeta /\ [][NextMeta]_vars

---------------------------------------------------------------------------
(* Specification of the synthesis of one builder by each script: the       *)
(* metadata is extracted from the source text and the template filled.     *)

\* the function of a role: its signature with parameters ps, its body
RoleFunction(role, ps, body) ==
    <<"async", " ", role, "(">> \o ps
    \o <<")", ":", " ", "Promise", "<", "x", ">", " ", "{">> \o body \o <<"\n">>

\* the function of a role whose return type is the object type { a }
RoleFunctionObjectType(role, body) ==
    <<"async", " ", role, "(", "x", ")", ":", " ", "Promise", "<", "{", "a", "}", ">",
      " ", "{">> \o body \o <<"\n">>

\* what a source text may hold for a role: nothing; a function; a function with
\* a string that holds a brace; a function with a destructured parameter; a
\* function whose closing brace is missing; a function with an object type as
\* return type
RoleTexts(role) ==
    {<<>>,
     RoleFunction(role, <<"x">>, <<" ", "x", " ", "}">>),
     RoleFunction(role, <<"x">>, <<" ", SQ, "}", SQ, " ", "}">>),
     RoleFunction(role, <<"{", "x", "}">>, <<" ", "x", " ", "}">>),
     RoleFunction(role, <<"x">>, <<" ", "x", " ">>),
     RoleFunctionObjectType(role, <<" ", "x", " ", "}">>)}

\* name: 'n' followed by the functions of the three roles
SynthContents ==
    {<<"name", ":", " ", SQ>> \o n \o <<SQ, ",", "\n">> \o d \o i \o k :
        n \in SeqsUpTo(NameChars, MaxName) \ {<<>>},
        d \in RoleTexts("detect"), i \in RoleTexts("install"), k \in RoleTexts("configure")}

InitSynth ==
    /\ content \in SynthContents
    /\ pc = "start"
    /\ ScanIdle
    /\ metadata = None
    /\ builder = None
    /\ BatchIdle
    /\ LoadIdle

Synthesize ==
    /\ pc = "start"
    /\ \E m \in {[s \in Scripts |-> extract_plugin_metadata(s, content)]} :
          /\ metadata' = m
          /\ builder' = [s \in Scripts |-> generate_builder_code(s, m[s], content)]
    /\ pc' = "done"
    /\ UNCHANGED <<loadVars, content, scanVars, batchVars>>

NextSynth == Synthesize

SpecSynth == InitSynth /\ [][NextSynth]_vars

---------------------------------------------------------------------------
(* The plugin tree.  A path is [dir, name]: a directory of PLUGINS_DIR and *)
(* a file name in it, a sequence of lexemes (a-b.ts is a, -, b, ., ts).    *)
(* generate-registry.py names the tree by an absolute path (line 10); it   *)
(* is taken to be the tree the generators write to.                        *)

\* the directories of PLUGINS_DIR that hold plugins, and all of them
CategoryDirs == {"http", "state"}

Dirs == CategoryDirs \cup {"builder"}

Path(dir, name) == [dir |-> dir, name |-> name]

TS == <<".", "ts">>

BuilderSuffix == <<"-", "builder">>

\* str.endswith
EndsWith(s, t) == Len(s) >= Len(t) /\ Slice(s, Len(s) - Len(t) + 1, Len(s)) = t

\* Path.stem: the name without its last suffix
Stem(name) ==
    LET dots == {j \in 2..Len(name) : name[j] = "."}
    IN  IF dots = {} THEN name ELSE Slice(name, 1, Max(dots) - 1)

\* the letters of a lexeme of a file or directory name
Letters(w) ==
    CASE w = "builder" -> <<"b", "u", "i", "l", "d", "e", "r">>
      [] w = "index" -> <<"i", "n", "d", "e", "x">>
      [] w = "zustand" -> <<"z", "u", "s", "t", "a", "n", "d">>
      [] w = "plugin" -> <<"p", "l", "u", "g", "i", "n">>
      [] w = "http" -> <<"h", "t", "t", "p">>
      [] w = "state" -> <<"s", "t", "a", "t", "e">>
      [] w = "ts" -> <<"t", "s">>
      [] OTHER -> <<w>>

\* a name as the string Python compares
RECURSIVE Spell(_)
Spell(s) == IF s = <<>> THEN <<>> ELSE Letters(Head(s)) \o Spell(Tail(s))

\* the characters of names in the order of their code points
Alphabet ==
    <<"-", ".", "/", "@", "a", "b", "c", "d", "e", "f", "g", "h", "i", "j", "k", "l",
      "m", "n", "o", "p", "q", "r", "s", "t", "u", "v", "w", "x", "y", "z">>

Code(ch) == CHOOSE i \in 1..Len(Alphabet) : Alphabet[i] = ch

\* the order of str: x < y
StrLess(a, b) ==
    \E x \in {Spell(a)} : \E y \in {Spell(b)} :
        \E i \in 1..(Min({Len(x), Len(y)}) + 1) :
            /\ \A j \in 1..(i - 1) : x[j] = y[j]
            /\ \/ i > Len(x) /\ i <= Len(y)
               \/ i <= Len(x) /\ i <= Len(y) /\ Code(x[i]) < Code(y[i])

\* sorted(): the names of S in ascending order
RECURSIVE Sorted(_)
Sorted(S) ==
    IF S = {} THEN <<>>
    ELSE Bind(CHOOSE m \in S : \A n \in S \ {m} : StrLess(m, n),
              LAMBDA m : <<m>> \o Sorted(S \ {m}))

\* the orders in which a directory may enumerate the entries S
RECURSIVE Perms(_)
Perms(S) ==
    IF S = {} THEN {<<>>}
    ELSE UNION {{<<x>> \o p : p \in Perms(S \ {x})} : x \in S}

\* Path.write_text
WriteText(f, p, text) == [q \in DOMAIN f \cup {p} |-> IF q = p THEN text ELSE f[q]]

\* the files of directory dir
FilesIn(f, dir) == {p \in DOMAIN f : p.dir = dir}

---------------------------------------------------------------------------
(* find_all_plugins (generate-builders-final.py lines 186-205,             *)
(* migrate-plugins.py lines 92-115, migrate-plugins-advanced.py lines      *)
(* 137-156: the same code).                                                *)

\* ALREADY_MIGRATED (final line 15), MIGRATED_PLUGINS (basic line 15, advanced
\* line 13)
ALREADY_MIGRATED ==
    {<<"zustand">>, <<"axios">>, <<"react", "-", "router">>, <<"tailwindcss">>,
     <<"prettier">>}

\* PLUGINS_DIR.iterdir(): registry.ts is there once it was written
TopEntries(reg) ==
    Dirs \cup {"versions.ts"} \cup (IF reg = None THEN {} ELSE {"registry.ts"})

\* the entries the outer loop enters (final lines 190-192)
IsCategoryDir(e) == e \in Dirs /\ e \notin {"builder", "versions.ts"}

\* the files the inner loop keeps (final lines 194-201)
IsPluginFile(p) ==
    /\ EndsWith(p.name, TS)
    /\ ~EndsWith(p.name, BuilderSuffix \o TS)
    /\ p.name # <<"index">> \o TS
    /\ Stem(p.name) \notin ALREADY_MIGRATED

\* plugins[key] = path: a dict keeps the place of a key it already holds
DictPut(d, key, path) ==
    IF \E j \in 1..Len(d) : d[j].key = key
    THEN [j \in 1..Len(d) |-> IF d[j].key = key THEN [key |-> key, path |-> path]
                                                ELSE d[j]]
    ELSE Append(d, [key |-> key, path |-> path])

DictGet(d, key) == d[CHOOSE j \in 1..Len(d) : d[j].key = key].path

Keys(d) == {d[j].key : j \in 1..Len(d)}

\* the kept files in the orders the two loops may meet them: iterdir gives the
\* directories in any order and glob the files of each in any order (an entry
\* the loops drop has no effect, whatever its place)
RECURSIVE Enumerations(_, _)
Enumerations(f, ds) ==
    IF ds = <<>> THEN {<<>>}
    ELSE {a \o b : a \in Perms({p \in FilesIn(f, Head(ds)) : IsPluginFile(p)}),
                   b \in Enumerations(f, Tail(ds))}

\* the dict built from the kept files met in the order enum (line 203)
RECURSIVE find_all_plugins(_, _)
find_all_plugins(d, enum) ==
    IF enum = <<>> THEN d
    ELSE find_all_plugins(DictPut(d, Stem(Head(enum).name), Head(enum)), Tail(enum))

\* the dicts find_all_plugins may return on the tree f
Discoveries(f, reg) ==
    {find_all_plugins(<<>>, e) :
        e \in UNION {Enumerations(f, ds) :
                        ds \in Perms({t \in TopEntries(reg) : IsCategoryDir(t)})}}

---------------------------------------------------------------------------
(* generate-registry.py: get_all_builder_plugins (lines 12-37),            *)
(* generate_imports (39-46), generate_registry_array (48-66).              *)

\* str.replace(old, ''): s without the occurrences of old
RECURSIVE Remove(_, _)
Remove(s, old) ==
    IF s = <<>> THEN <<>>
    ELSE IF Len(s) >= Len(old) /\ Slice(s, 1, Len(old)) = old
         THEN Remove(Slice(s, Len(old) + 1, Len(s)), old)
         ELSE <<Head(s)>> \o Remove(Tail(s), old)

\* lines 22-35: the entry of the builder file name of directory category
RegistryEntry(category, name) ==
    Bind(Remove(Stem(name), BuilderSuffix), LAMBDA plugin_name :
        [name |-> plugin_name,
         category |-> category,
         var |-> RemoveChars(plugin_name, {"@", "/", "-"}) \o <<"Plugin">>,
         path |-> <<category, "/">> \o plugin_name \o BuilderSuffix])

\* the entries of PLUGINS_DIR that line 19 keeps
IsRegistryDir(t) == t \in Dirs /\ t # "builder"

\* a glob that gives every file of the directory
GlobBuilders_EveryFile(f, category) == FilesIn(f, category)

\* the files that glob('*-builder.ts') gives in directory category
GlobBuilders(f, category) ==
    {q \in FilesIn(f, category) : EndsWith(q.name, BuilderSuffix \o TS)}

\* the orders in which the directories ds may give their builder files
RECURSIVE GlobOrders(_, _)
GlobOrders(f, ds) ==
    IF ds = <<>> THEN {<<>>}
    ELSE {a \o b : a \in Perms(GlobBuilders(f, Head(ds)[1])),
                   b \in GlobOrders(f, Tail(ds))}

\* what the file system may give to one run: iterdir (the kept entries, each
\* as a name) and the globs (an entry that line 19 drops has no effect)
RegistryEnumerations(f, reg) ==
    {[dirs |-> de, files |-> fe] :
        de \in Perms({<<t>> : t \in {u \in TopEntries(reg) : IsRegistryDir(u)}}),
        fe \in GlobOrders(f, Sorted({<<t>> : t \in {u \in TopEntries(reg) :
                                                       IsRegistryDir(u)}}))}

\* a list left as it was enumerated
SortedList_AsEnumerated(s) == s

\* sorted() of an enumeration of names
SortedList(s) == Sorted({s[j] : j \in 1..Len(s)})

\* the names of the sequence of paths fe that are in directory category
NamesIn(fe, category) ==
    Bind(SelectSeq(fe, LAMBDA p : p.dir = category),
         LAMBDA ps : [j \in 1..Len(ps) |-> ps[j].name])

\* lines 22-35 for one directory: sorted(category_dir.glob('*-builder.ts'))
EntriesIn(fe, category) ==
    Bind(SortedList(NamesIn(fe, category)),
         LAMBDA names : [j \in 1..Len(names) |-> RegistryEntry(category, names[j])])

RECURSIVE EntriesOfAll(_, _)
EntriesOfAll(fe, ds) ==
    IF ds = <<>> THEN <<>>
    ELSE EntriesIn(fe, Head(ds)[1]) \o EntriesOfAll(fe, Tail(ds))

\* the directories taken in the order iterdir gives them
get_all_builder_plugins_DirsAsEnumerated(de, fe) == EntriesOfAll(fe, de)

\* lines 12-37 when iterdir gives de and the globs give fe:
\* sorted(PLUGINS_DIR.iterdir()), then the sorted files of each directory
get_all_builder_plugins(de, fe) == EntriesOfAll(fe, SortedList(de))

\* import { var } from './path.js'
generate_imports(ps) ==
    [j \in 1..Len(ps) |-> [var |-> ps[j].var,
                           from |-> <<".", "/">> \o ps[j].path \o <<".", "js">>]]

\* str.upper of a category
Upper(category) ==
    CASE category = "http" -> "HTTP"
      [] category = "state" -> "STATE"
      [] category = "builder" -> "BUILDER"

RegistryLine(kind, text) == [kind |-> kind, text |-> text]

\* the lines of one category: its comment, its elements, a blank line
CategoryLines(ps, category) ==
    <<RegistryLine("comment", <<Upper(category)>>)>>
    \o Bind(SelectSeq(ps, LAMBDA e : e.category = category),
            LAMBDA es : [j \in 1..Len(es) |-> RegistryLine("element", es[j].var)])
    \o <<RegistryLine("blank", <<>>)>>

RECURSIVE LinesOfAll(_, _)
LinesOfAll(ps, cs) ==
    IF cs = <<>> THEN <<>>
    ELSE CategoryLines(ps, Head(cs)[1]) \o LinesOfAll(ps, Tail(cs))

generate_registry_array(ps) ==
    LinesOfAll(ps, Sorted({<<ps[j].category>> : j \in 1..Len(ps)}))

\* the text written to registry.ts (lines 68-415): the imports and the array;
\* the rest of the text is the same in every run
RegistryText(de, fe) ==
    Bind(get_all_builder_plugins(de, fe), LAMBDA ps :
        [imports |-> generate_imports(ps), array |-> generate_registry_array(ps)])

---------------------------------------------------------------------------
(* Specification of the pipeline: at most MaxRuns runs of one generator    *)
(* script over a plugin tree, and runs of generate-registry.py.            *)

Source(text) == [kind |-> "source", text |-> text]

BuilderFile(text) == [kind |-> "builder", text |-> text]

\* a descriptor that declares the name n, and one that declares none
NamedText(n) == <<"name", ":", " ", SQ>> \o n \o <<SQ, ",", "\n">>

NamelessText == <<"displayName", ":", " ", SQ, "x", SQ, ",", "\n">>

\* the builder written by hand for zustand
ManualBuilder ==
    [template |-> "manual",
     export |-> <<"zustand", "Plugin">>,
     metadata |-> extract_plugin_metadata("final", NamedText(<<"zustand">>)),
     steps |-> [r \in 1..3 |-> DefaultStep(Roles[r], <<"zustand">>)]]

\* the files every tree holds: the builder library, an index, a plugin that is
\* already migrated and its builder
FixedFiles ==
    Path("builder", <<"plugin", "-", "builder">> \o TS) :> Source(<<"createPlugin">>)
    @@ Path("http", <<"index">> \o TS) :> Source(<<"export">>)
    @@ Path("http", <<"zustand">> \o TS) :> Source(NamedText(<<"zustand">>))
    @@ Path("http", <<"zustand", "-", "builder">> \o TS) :> BuilderFile(ManualBuilder)

\* the descriptors a tree may hold: http/ab.ts and http/a-b.ts named as their
\* files, http/x.ts named @a/b, state/ab.ts named @x/ab, state/n.ts without a
\* name
Candidates ==
    Path("http", <<"a", "b">> \o TS) :> Source(NamedText(<<"a", "b">>))
    @@ Path("http", <<"a", "-", "b">> \o TS) :> Source(NamedText(<<"a", "-", "b">>))
    @@ Path("http", <<"x">> \o TS) :> Source(NamedText(<<"@", "a", "/", "b">>))
    @@ Path("state", <<"a", "b">> \o TS)
           :> Source(NamedText(<<"@", "x", "/", "a", "b">>))
    @@ Path("state", <<"n">> \o TS) :> Source(NamelessText)

Trees == {FixedFiles @@ [p \in S |-> Candidates[p]] : S \in SUBSET DOMAIN Candidates}

InitBatch ==
    /\ fs \in Trees
    /\ program \in Scripts
    /\ argv \in (IF program = "basic" THEN {<<program>>, <<program, "--generate">>}
                                     ELSE {<<program>>})
    /\ pc = "shell"
    /\ plugins = <<>>
    /\ todo = <<>>
    /\ generated = 0
    /\ failed = <<>>
    /\ printed = <<>>
    /\ exit_status = None
    /\ runs_log = <<>>
    /\ registry = None
    /\ registry_log = <<>>
    /\ LoadIdle
    /\ content = <<>>
    /\ ScanIdle
    /\ metadata = None
    /\ builder = None

\* the files named *-builder.ts
BuilderFiles(f) == {p \in DOMAIN f : EndsWith(p.name, BuilderSuffix \o TS)}

\* what a finished run leaves: its status, the files it took as input, the
\* builder files after it
RunLog(status, d, f) ==
    [status |-> status,
     discovered |-> {d[j].path : j \in 1..Len(d)},
     builders |-> [p \in BuilderFiles(f) |-> f[p]]]

\* a result line of the loop
Line(ok, name, detail) == [ok |-> ok, name |-> name, detail |-> detail]

\* builder_path (final line 229, basic line 258, advanced line 265)
BuilderPath(plugin_path, plugin_name) ==
    Path(plugin_path.dir, plugin_name \o BuilderSuffix \o TS)

\* the process ends with status
Exit(status, d, f) ==
    /\ pc' = "exited"
    /\ exit_status' = Some(status)
    /\ runs_log' = Append(runs_log, RunLog(status, d, f))

\* main up to its loop: final lines 211-215, advanced lines 253-256, basic
\* lines 213-245 (without plugins it returns 0, without --generate 1; its loop
\* visits plugins.items(), the other two sorted(plugins.keys()))
MainStart ==
    /\ pc \in {"shell", "exited", "assembled"}
    /\ Len(runs_log) < MaxRuns
    /\ \E d \in Discoveries(fs, registry) :
          /\ plugins' = d
          /\ generated' = 0
          /\ failed' = <<>>
          /\ printed' = <<>>
          /\ IF program = "basic" /\ d = <<>>
             THEN todo' = <<>> /\ Exit(0, d, fs)
             ELSE IF program = "basic" /\ ~(Len(argv) > 1 /\ argv[2] = "--generate")
             THEN todo' = <<>> /\ Exit(1, d, fs)
             ELSE /\ todo' = IF program = "basic" THEN [j \in 1..Len(d) |-> d[j].key]
                                                 ELSE Sorted(Keys(d))
                  /\ pc' = "loop"
                  /\ exit_status' = None
                  /\ UNCHANGED runs_log
    /\ UNCHANGED <<loadVars, content, scanVars, metadata, builder, fs, program, argv, registry,
                   registry_log>>

\* one pass of the loop of main: final lines 217-237, advanced lines 257-271
\* (the exception of a pass is caught and printed), basic lines 247-262 (it is
\* not caught: the traceback is printed and the process ends with status 1)
LoopStep ==
    /\ pc = "loop"
    /\ todo # <<>>
    /\ \E plugin_name \in {Head(todo)} :
       \E plugin_path \in {DictGet(plugins, Head(todo))} :
       \E m \in {extract_plugin_metadata(program, fs[plugin_path].text)} :
       \E code \in {generate_builder_code(program, m, fs[plugin_path].text)} :
          IF program = "final" /\ m.name = None
          THEN /\ failed' = Append(failed, [name |-> plugin_name,
                                            error |-> "Could not extract plugin name"])
               /\ printed' = Append(printed, Line(FALSE, plugin_name,
                                                  "Could not extract plugin name"))
               /\ todo' = Tail(todo)
               /\ UNCHANGED <<fs, generated, pc, exit_status, runs_log, registry_log>>
          ELSE IF code.raised /\ program = "advanced"
          THEN /\ printed' = Append(printed, Line(FALSE, plugin_name, code.text))
               /\ todo' = Tail(todo)
               /\ UNCHANGED <<fs, generated, failed, pc, exit_status, runs_log,
                               registry_log>>
          ELSE IF code.raised
          THEN /\ printed' = Append(printed, Line(FALSE, <<"Traceback">>, code.text))
               /\ Exit(1, plugins, fs)
               /\ UNCHANGED <<fs, generated, failed, todo, registry_log>>
          ELSE /\ fs' = WriteText(fs, BuilderPath(plugin_path, plugin_name),
                                  BuilderFile(code.text))
               /\ generated' = generated + 1
               /\ printed' = Append(printed, Line(TRUE, plugin_name, plugin_path.dir))
               /\ todo' = Tail(todo)
               /\ registry_log' = <<>>
               /\ UNCHANGED <<failed, pc, exit_status, runs_log>>
    /\ UNCHANGED <<loadVars, content, scanVars, metadata, builder, program, argv, plugins, registry>>

\* main after its loop: final line 246, advanced line 274, basic line 265
MainEnd ==
    /\ pc = "loop"
    /\ todo = <<>>
    /\ Exit(CASE program = "final" -> IF failed = <<>> THEN 0 ELSE 1
              [] program = "advanced" -> IF generated = Len(plugins) THEN 0 ELSE 1
              [] program = "basic" -> 0,
            plugins, fs)
    /\ UNCHANGED <<loadVars, content, scanVars, metadata, builder, fs, program, argv, plugins,
                   todo, generated, failed, printed, registry, registry_log>>

\* generate-registry.py main (lines 68-418)
RegistryRun ==
    /\ pc \in {"shell", "exited", "assembled"}
    /\ Len(registry_log) < MaxAssemblies
    /\ \E e \in RegistryEnumerations(fs, registry) :
        \E text \in {RegistryText(e.dirs, e.files)} :
          /\ registry' = Some(text)
          /\ registry_log' = Append(registry_log, text)
    /\ pc' = "assembled"
    /\ UNCHANGED <<loadVars, content, scanVars, metadata, builder, fs, program, argv, plugins,
                   todo, generated, failed, printed, exit_status, runs_log>>

NextBatch == MainStart \/ LoopStep \/ MainEnd \/ RegistryRun

SpecBatch == InitBatch /\ [][NextBatch]_vars

---------------------------------------------------------------------------
(* Specification of the assembler alone: builder files come and go in the  *)
(* category directories and generate-registry.py is run over what is       *)
(* there.                                                                  *)

\* a builder file, of which the assembler reads the name alone
SomeBuilder(n) == BuilderFile(<<"export", " ", "const", " ">> \o n \o <<"Plugin">>)

\* the builder files a tree may hold beside the fixed ones: a and a-a in http,
\* a and x in state
BuilderCandidates ==
    Path("http", <<"a", "-", "builder">> \o TS) :> SomeBuilder(<<"a">>)
    @@ Path("http", <<"a", "-", "a", "-", "builder">> \o TS) :> SomeBuilder(<<"a", "a">>)
    @@ Path("state", <<"a", "-", "builder">> \o TS) :> SomeBuilder(<<"a">>)
    @@ Path("state", <<"x", "-", "builder">> \o TS) :> SomeBuilder(<<"x">>)

AssemblyTrees ==
    {FixedFiles @@ [p \in S |-> BuilderCandidates[p]] :
        S \in SUBSET DOMAIN BuilderCandidates}

InitAssembly ==
    /\ fs \in AssemblyTrees
    /\ program = "registry"
    /\ argv = <<program>>
    /\ pc = "shell"
    /\ plugins = <<>>
    /\ todo = <<>>
    /\ generated = 0
    /\ failed = <<>>
    /\ printed = <<>>
    /\ exit_status = None
    /\ runs_log = <<>>
    /\ registry = None
    /\ registry_log = <<>>
    /\ LoadIdle
    /\ content = <<>>
    /\ ScanIdle
    /\ metadata = None
    /\ builder = None

\* a builder file is put into a category directory
AddBuilderFile ==
    /\ pc \in {"shell", "assembled"}
    /\ \E p \in DOMAIN BuilderCandidates \ DOMAIN fs :
          fs' = WriteText(fs, p, BuilderCandidates[p])
    /\ pc' = "shell"
    /\ registry_log' = <<>>
    /\ UNCHANGED <<loadVars, content, scanVars, metadata, builder, program, argv, plugins,
                   todo, generated, failed, printed, exit_status, runs_log, registry>>

\* a builder file is taken out of a category directory
RemoveBuilderFile ==
    /\ pc \in {"shell", "assembled"}
    /\ \E p \in DOMAIN BuilderCandidates \cap DOMAIN fs :
          fs' = [q \in DOMAIN fs \ {p} |-> fs[q]]
    /\ pc' = "shell"
    /\ registry_log' = <<>>
    /\ UNCHANGED <<loadVars, content, scanVars, metadata, builder, program, argv, plugins,
                   todo, generated, failed, printed, exit_status, runs_log, registry>>

NextAssembly == AddBuilderFile \/ RemoveBuilderFile \/ RegistryRun

SpecAssembly == InitAssembly /\ [][NextAssembly]_vars

\* builder files of plugins whose name holds the text -builder: a-builder in
\* http, x-builder in state
NestedCandidates ==
    Path("http", <<"a", "-", "builder", "-", "builder">> \o TS)
        :> SomeBuilder(<<"a", "builder">>)
    @@ Path("state", <<"x", "-", "builder", "-", "builder">> \o TS)
        :> SomeBuilder(<<"x", "builder">>)

NestedTrees ==
    {t @@ [p \in S |-> NestedCandidates[p]] :
        t \in AssemblyTrees, S \in SUBSET DOMAIN NestedCandidates}

InitNested ==
    /\ fs \in NestedTrees
    /\ program = "registry"
    /\ argv = <<program>>
    /\ pc = "shell"
    /\ plugins = <<>>
    /\ todo = <<>>
    /\ generated = 0
    /\ failed = <<>>
    /\ printed = <<>>
    /\ exit_status = None
    /\ runs_log = <<>>
    /\ registry = None
    /\ registry_log = <<>>
    /\ LoadIdle
    /\ content = <<>>
    /\ ScanIdle
    /\ metadata = None
    /\ builder = None

\* the assembler over trees that may hold such builder files
SpecNested == InitNested /\ [][NextAssembly]_vars

---------------------------------------------------------------------------
(* registry.ts as generate-registry.py writes it (lines 142-411): the      *)
(* validation at load time and the queries.  A value of a plugin field is  *)
(* [type, val]: type is what typeof and Array.isArray tell of it, val its  *)
(* texts (the string, the elements of the array, the dependency a detect   *)
(* function looks up).                                                     *)

Undefined == [type |-> "undefined", val |-> <<>>]

Str(t) == [type |-> "string", val |-> <<t>>]

Arr(ts) == [type |-> "array", val |-> ts]

\* a function; as detect it returns ctx.dependencies[key] !== undefined
Fn(key) == [type |-> "function", val |-> <<key>>]

\* Object.values(Category): the categories that the text lists (lines 124-134)
CategoryValues ==
    {<<"ROUTING">>, <<"STATE">>, <<"HTTP">>, <<"CSS">>, <<"TOOLING">>, <<"TESTING">>,
     <<"UI">>, <<"FORMS">>, <<"ANIMATION">>, <<"NEXTJS">>, <<"UTILS">>}

\* requiredFields (lines 151-158)
requiredFields == {"name", "displayName", "description", "category", "install", "configure"}

\* validatePlugin that accepts an empty frameworks array
validatePlugin_AnyFrameworks(plugin) ==
    /\ \A field \in requiredFields : plugin[field] # Undefined
    /\ plugin.category.type = "string" /\ plugin.category.val[1] \in CategoryValues
    /\ plugin.frameworks.type = "array"
    /\ plugin.install.type = "function"
    /\ plugin.configure.type = "function"

\* validatePlugin (lines 150-213)
validatePlugin(plugin) ==
    /\ \A field \in requiredFields : plugin[field] # Undefined
    /\ plugin.category.type = "string" /\ plugin.category.val[1] \in CategoryValues
    /\ plugin.frameworks.type = "array" /\ Len(plugin.frameworks.val) # 0
    /\ plugin.install.type = "function"
    /\ plugin.configure.type = "function"

\* getPluginById (lines 258-260): Array.find
getPluginById(reg, id) ==
    Bind({j \in 1..Len(reg) : reg[j].name = Str(id)},
         LAMBDA hits : IF hits = {} THEN Undefined ELSE reg[Min(hits)])

\* getPluginsByCategory (lines 273-275)
getPluginsByCategory(reg, category) ==
    SelectSeq(reg, LAMBDA p : p.category = Str(category))

\* getPluginsByFramework (lines 390-392)
getPluginsByFramework(reg, framework) ==
    SelectSeq(reg, LAMBDA p : \E k \in 1..Len(p.frameworks.val) :
                                  p.frameworks.val[k] = framework)

\* getInstalledPlugins (lines 405-410) in a project with the dependencies deps;
\* the call of a detect that is no function throws
getInstalledPlugins(reg, deps) ==
    IF \E j \in 1..Len(reg) : reg[j].detect.type \notin {"undefined", "function"}
    THEN "TypeError"
    ELSE SelectSeq(reg, LAMBDA p : /\ p.detect # Undefined
                                   /\ p.detect.val[1] \in deps)

---------------------------------------------------------------------------
(* Specification of the load of registry.ts: validateRegistry runs over    *)
(* pluginRegistry, then queries are made.                                  *)

\* a plugin as a builder's build() gives it when every step was called with
\* good arguments
GoodPlugin(n) ==
    [name |-> Str(n), displayName |-> Str(<<"x">>), description |-> Str(<<"x">>),
     category |-> Str(<<"HTTP">>), frameworks |-> Arr(<<<<"react">>>>),
     detect |-> Fn(n), install |-> Fn(n), configure |-> Fn(n)]

\* the values a field may have instead
BadValues(field) ==
    CASE field \in {"name", "displayName", "description"} -> {Undefined}
      [] field = "category" -> {Undefined, Str(<<"None">>)}
      [] field = "frameworks" -> {Undefined, Arr(<<>>)}
      [] OTHER -> {Undefined, Str(<<"x">>)}

\* the plugins a collection may hold: w and v as they should be, and w with
\* one field that is not
PluginObjects ==
    {GoodPlugin(<<"w">>), GoodPlugin(<<"v">>)}
    \cup UNION {{[GoodPlugin(<<"w">>) EXCEPT ![field] = bad] : bad \in BadValues(field)} :
                   field \in DOMAIN GoodPlugin(<<"w">>)}

\* the longest collection of such plugins
MaxPlugins == 3

\* a descriptor that declares the name widget and the frameworks ['react'], no
\* incompatibleWith and no callback; the other fields it may declare
WidgetOptions ==
    {<<>>,
     <<"displayName", ":", " ", SQ, "x", SQ, ",", "\n">>,
     <<"category", ":", " ", "Category", ".", "HTTP", ",", "\n">>,
     <<"displayName", ":", " ", SQ, "x", SQ, ",", "\n",
       "description", ":", " ", SQ, "x", SQ, ",", "\n",
       "category", ":", " ", "Category", ".", "HTTP", ",", "\n">>}

WidgetDescriptors ==
    {NamedText(<<"widget">>)
     \o <<"frameworks", ":", " ", "[", SQ, "react", SQ, "]", ",", "\n">> \o rest :
        rest \in WidgetOptions}

\* what the f-string of the template writes for a value (final lines 138-146):
\* str(None) is None
Rendered(v) == IF v = None THEN <<"None">> ELSE v[1]

\* the step of builder text b for role, Undefined when it has none
StepFn(b, role) ==
    Bind({k \in 1..Len(b.steps) : b.steps[k].step = StepOf(role)},
         LAMBDA ks : IF ks = {} THEN Undefined
                     ELSE IF b.steps[Min(ks)].kind = "default"
                          THEN Fn(b.steps[Min(ks)].body)
                          ELSE Fn(<<"code">>))

\* the plugin that the builder text b builds (final lines 143-183): named,
\* forFrameworks, inCategory, withDetect, withInstall, withConfigure, build
LoadBuilder(b) ==
    [name |-> Str(Rendered(b.metadata.name)),
     displayName |-> Str(Rendered(b.metadata.displayName)),
     description |-> Str(Rendered(b.metadata.description)),
     category |-> Str(IF b.metadata.category = None THEN <<"None">>
                      ELSE b.metadata.category),
     frameworks |-> Arr(b.metadata.frameworks),
     detect |-> StepFn(b, "detect"),
     install |-> StepFn(b, "install"),
     configure |-> StepFn(b, "configure")]

\* the plugins of the builders that generate-builders-final.py writes for the
\* widget descriptors
WidgetPlugins ==
    {LoadBuilder(generate_builder_code("final", extract_plugin_metadata("final", c),
                                       c).text) : c \in WidgetDescriptors}

\* the collections registry.ts may hold
Registries ==
    SeqsUpTo(PluginObjects, MaxPlugins)
    \cup {<<p>> : p \in WidgetPlugins}
    \cup {<<GoodPlugin(<<"v">>), p>> : p \in WidgetPlugins}

\* the arguments of the queries
QueryIds == {<<"w">>, <<"widget">>}

QueryCategories == {<<"HTTP">>}

QueryFrameworks == {<<"react">>}

\* the dependencies of the project of a context
QueryContexts == {{<<"w">>, <<"widget">>}}

InitLoad ==
    /\ pluginRegistry \in Registries
    /\ cursor = 1
    /\ validPlugins = <<>>
    /\ invalidPlugins = <<>>
    /\ warning = None
    /\ validatedRegistry = None
    /\ answer = None
    /\ pc = "validate"
    /\ content = <<>>
    /\ ScanIdle
    /\ metadata = None
    /\ builder = None
    /\ BatchIdle

\* one pass of the loop of validateRegistry (lines 225-231)
ValidateStep ==
    /\ pc = "validate"
    /\ cursor <= Len(pluginRegistry)
    /\ \E plugin \in {pluginRegistry[cursor]} :
          IF validatePlugin(plugin)
          THEN /\ validPlugins' = Append(validPlugins, plugin)
               /\ UNCHANGED invalidPlugins
          ELSE /\ invalidPlugins' = Append(invalidPlugins, plugin.name)
               /\ UNCHANGED validPlugins
    /\ cursor' = cursor + 1
    /\ UNCHANGED <<pluginRegistry, warning, validatedRegistry, answer, pc,
                   content, scanVars, metadata, builder, batchVars>>

\* validateRegistry after its loop (lines 233-241) and line 245
ValidateEnd ==
    /\ pc = "validate"
    /\ cursor > Len(pluginRegistry)
    /\ warning' = IF Len(invalidPlugins) > 0 THEN Some(invalidPlugins) ELSE None
    /\ validatedRegistry' = Some(validPlugins)
    /\ pc' = "loaded"
    /\ UNCHANGED <<pluginRegistry, cursor, validPlugins, invalidPlugins, answer,
                   content, scanVars, metadata, builder, batchVars>>

\* a query and what it returns
Answer(query, arg, value) == Some([query |-> query, arg |-> arg, value |-> value])

\* a call of one of the exported queries
Query ==
    /\ pc = "loaded"
    /\ \E reg \in {validatedRegistry[1]} :
          \/ \E id \in QueryIds :
                answer' = Answer("getPluginById", id, getPluginById(reg, id))
          \/ \E category \in QueryCategories :
                answer' = Answer("getPluginsByCategory", category,
                                 getPluginsByCategory(reg, category))
          \/ \E framework \in QueryFrameworks :
                answer' = Answer("getPluginsByFramework", framework,
                                 getPluginsByFramework(reg, framework))
          \/ \E deps \in QueryContexts :
                answer' = Answer("getInstalledPlugins", deps,
                                 getInstalledPlugins(reg, deps))
    /\ UNCHANGED <<pluginRegistry, cursor, validPlugins, invalidPlugins, warning,
                   validatedRegistry, pc, content, scanVars, metadata, builder,
                   batchVars>>

NextLoad == ValidateStep \/ ValidateEnd \/ Query

SpecLoad == InitLoad /\ [][NextLoad]_vars

---------------------------------------------------------------------------
(* What the claims about extract_function speak of, stated on the text     *)
(* alone: by counting, not by running the loop.                            *)

\* the quote marks of the text's language
LiteralMarks == {DQ, SQ, BQ}

\* where the leftmost signature anchor of detect starts, 0 when there is none
AnchorStart(c) ==
    LET starts == {i \in 1..Len(c) : AnchorEndAt(c, "detect", i) # 0}
    IN  IF starts = {} THEN 0 ELSE Min(starts)

\* the first opening brace at or after position st, 0 when there is none
FirstBrace(c, st) ==
    IF st = 0 \/ \A j \in st..Len(c) : c[j] # "{" THEN 0
    ELSE Min({j \in st..Len(c) : c[j] = "{"})

\* the number of backslashes that stand immediately before position i, after b
BackslashRun(c, b, i) ==
    (i - 1) - Max({j \in b..(i - 1) : j = b \/ c[j] # BS})

\* position i follows an odd run of backslashes: the scan consumes it as escaped
Escaped(c, b, i) == BackslashRun(c, b, i) % 2 = 1

\* a quote mark that is not escaped
QuoteAt(c, b, i) == c[i] \in LiteralMarks /\ ~Escaped(c, b, i)

\* position i lies in a quoted span as section 4.1 defines it: an odd number of
\* unescaped quote marks, of any kind, stand between the brace b and i
Quoted(c, b, i) == Cardinality({j \in (b + 1)..(i - 1) : QuoteAt(c, b, j)}) % 2 = 1

\* a brace x at position i that counts: not escaped, not in a quoted span
Counts(c, b, i, x) == c[i] = x /\ ~Escaped(c, b, i) /\ ~Quoted(c, b, i)

\* the nesting depth before position i
Depth(c, b, i) ==
    Cardinality({j \in (b + 1)..(i - 1) : Counts(c, b, j, "{")})
    - Cardinality({j \in (b + 1)..(i - 1) : Counts(c, b, j, "}")})

\* the closing brace that matches the opening brace at b, 0 when the region
\* never balances
MatchingBrace(c, b) ==
    LET closers == {i \in (b + 1)..Len(c) : Counts(c, b, i, "}") /\ Depth(c, b, i) = 0}
    IN  IF closers = {} THEN 0 ELSE Min(closers)

\* The literals of the callback text as the language of the text reads them:
\* a literal runs from a quote mark to the next unescaped mark of the same kind,
\* and a backslash escapes only inside a literal.  The state before position
\* i, reading from position from: the kind of the open literal ("none" when
\* outside), and whether the next lexeme is escaped.
RECURSIVE LitState(_, _, _)
LitState(c, from, i) ==
    IF i <= from THEN [kind |-> "none", esc |-> FALSE]
    ELSE LET p == LitState(c, from, i - 1)
             ch == c[i - 1]
         IN IF p.kind = "none"
            THEN [kind |-> IF ch \in LiteralMarks THEN ch ELSE "none", esc |-> FALSE]
            ELSE IF p.esc THEN [p EXCEPT !.esc = FALSE]
            ELSE IF ch = BS THEN [p EXCEPT !.esc = TRUE]
            ELSE IF ch = p.kind THEN [kind |-> "none", esc |-> FALSE]
            ELSE p

\* position i lies inside a string or template literal
InLiteral(c, from, i) == LitState(c, from, i).kind # "none"

\* before position i every unescaped quote mark inside a literal is of the
\* literal's own kind, and no backslash stands outside a literal
PlainQuoting(c, from, i) ==
    \A j \in from..(i - 1) :
        LET p == LitState(c, from, j)
        IN /\ (p.kind # "none" /\ ~p.esc /\ c[j] \in LiteralMarks) => c[j] = p.kind
           /\ (p.kind = "none") => c[j] # BS

\* the scan is at a brace inside a literal of the callback text
AtBraceInLiteral ==
    /\ pc = "scan"
    /\ pos <= Len(content)
    /\ content[pos] \in {"{", "}"}
    /\ InLiteral(content, AnchorStart(content), pos)

\* the step leaves the depth alone and does not return
BraceIgnored == brace_count' = brace_count /\ pc' = "scan"

---------------------------------------------------------------------------
(* C1 - C3.                                                                *)

\* C1 as stated: when the anchor occurs and the region opened by the brace that
\* ends the anchor is balanced, the result is exactly the text from that brace
\* through its matching closing brace.
C1_FromOpeningBrace ==
    (pc = "done" /\ AnchorStart(content) # 0) =>
        LET ab == AnchorEndAt(content, "detect", AnchorStart(content))
            e == MatchingBrace(content, ab)
        IN  e # 0 => result = Some(Slice(content, ab, e))

\* C1 amended: when the anchor occurs, the scan starts at the first opening brace
\* at or after the start of the anchor, which is the brace that ends the anchor
\* when no brace stands in the parameter list or the return type; when the
\* region opened by that brace is balanced, the result is exactly the text from
\* the first lexeme of the anchor through the matching closing brace.
C1_FromAnchorStart ==
    (pc = "done" /\ AnchorStart(content) # 0) =>
        LET a == AnchorStart(content)
            ab == AnchorEndAt(content, "detect", a)
            fb == FirstBrace(content, a)
            e == MatchingBrace(content, fb)
        IN  /\ start_brace = fb
            /\ (\A j \in a..(ab - 1) : content[j] # "{") => fb = ab
            /\ e # 0 => result = Some(Slice(content, a, e))

\* C1 witness: text stands before the signature and after the closing brace, and
\* the result is the signature and the region, without either.
C1_Witness ==
    /\ pc = "done"
    /\ content = SigAfterText \o <<"x", "}", "x">>
    /\ result = Some(SigPlain \o <<"x", "}">>)

C3_BraceInLiteralIgnored == [][AtBraceInLiteral => BraceIgnored]_vars

\* C3 amended: a brace inside a string or template literal never changes the
\* nesting depth and never ends the extraction, provided that up to that brace
\* no literal holds an unescaped quote mark of another kind and no backslash
\* stands outside a literal.
C3_BraceInPlainLiteralIgnored ==
    [][(AtBraceInLiteral /\ PlainQuoting(content, AnchorStart(content), pos)) => BraceIgnored]_vars

\* C3 witness: the closing brace inside "}" was passed over and the whole body,
\* that brace included, is the result.
C3_Witness ==
    /\ pc = "done"
    /\ content = SigPlain \o <<DQ, "}", DQ, "}">>
    /\ result = Some(content)

---------------------------------------------------------------------------
(* C4.                                                                     *)

\* the text declares its plugin name at position i: the key name, a colon,
\* blanks, a quote mark at q, one lexeme or more with no quote mark among them,
\* the same quote mark again at e; and the letters name: occur nowhere before
DeclaresName(c, i, q, e) ==
    /\ At(c, i, "name") /\ At(c, i + 1, ":")
    /\ \A j \in 1..(i - 1) : ~(c[j] \in {"name", "hostname"} /\ At(c, j + 1, ":"))
    /\ \A j \in (i + 2)..(q - 1) : c[j] \in {" ", "\n"}
    /\ c[q] \in {DQ, SQ}
    /\ e > q + 1
    /\ c[e] = c[q]
    /\ \A j \in (q + 1)..(e - 1) : c[j] \notin LiteralMarks

---------------------------------------------------------------------------
(* C6, C7.                                                                 *)

\* the steps of a role in a builder text
StepsFor(text, role) == {j \in 1..Len(text.steps) : text.steps[j].step = StepOf(role)}

\* C6: the builder text of migrate-plugins-advanced.py holds exactly one step
\* for each of the three roles, which wraps the extracted body when
\* extract_function returned a text and the default when it returned None.
C6_OneStepPerRole ==
    (pc = "done" /\ ~builder["advanced"].raised) =>
        LET text == builder["advanced"].text
        IN  \A r \in 1..3 :
              /\ Cardinality(StepsFor(text, Roles[r])) = 1
              /\ \A j \in StepsFor(text, Roles[r]) :
                    text.steps[j].kind =
                        IF extract_function(content, Roles[r]) = None
                        THEN "default" ELSE "extracted"

\* the characters of an identifier, and those that cannot start one
IdentChars == {"a", "b", "x", "Plugin", "_", "$", "3"}

IsIdentifier(t) ==
    /\ t # <<>>
    /\ \A j \in 1..Len(t) : t[j] \in IdentChars
    /\ t[1] # "3"

\* C7: in every script the exported identifier is the name without its @, /
\* and - and without any other character an identifier cannot hold, followed
\* by Plugin, and it is a legal identifier.
C7_IdentifierLegal ==
    pc = "done" =>
        \A s \in Scripts :
            ~builder[s].raised =>
                /\ IsIdentifier(builder[s].text.export)
                /\ builder[s].text.export =
                       RemoveChars(metadata[s].name[1], {"@", "/", "-"}) \o <<"Plugin">>

---------------------------------------------------------------------------
(* C5, C8, C9, C10: what the claims about the pipeline speak of, stated on *)
(* the tree, the printed lines and the registry text.                      *)

\* the descriptors the run took as its batch
Artifacts == {plugins[j].path : j \in 1..Len(plugins)}

\* the run went through the artifacts (migrate-plugins.py only lists them
\* without --generate)
GeneratingRun == program # "basic" \/ Len(argv) > 1

\* the descriptor at p declares a name, and the name it declares
DeclaresAName(p) == \E i \in 1..Len(fs[p].text) : fs[p].text[i] = "name"

DeclaredName(p) == SubSeq(fs[p].text, 5, Len(fs[p].text) - 3)

\* the file name without .ts, and the builder file next to descriptor p
BaseName(p) == SubSeq(p.name, 1, Len(p.name) - 2)

BuilderOf(p) == [dir |-> p.dir, name |-> BaseName(p) \o <<"-", "builder", ".", "ts">>]

\* a failure was printed for p: its own line, or the traceback that ends the run
Reported(p) ==
    \E j \in 1..Len(printed) :
        /\ ~printed[j].ok
        /\ printed[j].name \in {BaseName(p), <<"Traceback">>}
        /\ printed[j].detail # ""

\* C5: when a run of a generator script has ended, every artifact of its batch
\* without a name has no builder file and a printed failure, and every artifact
\* with a name has its builder file: one failure does not keep the others from
\* being processed.
C5_FailureIsLocal ==
    (pc = "exited" /\ GeneratingRun) =>
        \A p \in Artifacts :
            IF DeclaresAName(p)
            THEN BuilderOf(p) \in DOMAIN fs
            ELSE BuilderOf(p) \notin DOMAIN fs /\ Reported(p)

\* the identifier of a name: the name without @, / and -, then Plugin
Sanitized(n) == SelectSeq(n, LAMBDA ch : ch \notin {"@", "/", "-"}) \o <<"Plugin">>

\* two artifacts of the batch whose distinct names give one identifier
Collide(p, q) ==
    /\ p # q
    /\ DeclaresAName(p) /\ DeclaresAName(q)
    /\ DeclaredName(p) # DeclaredName(q)
    /\ Sanitized(DeclaredName(p)) = Sanitized(DeclaredName(q))

\* C8: after a run that visited its whole batch, two artifacts whose distinct
\* names sanitize to one identifier are both reported as failed and neither has
\* a builder file; and a registry never holds two imports of one identifier.
C8_CollisionDetected ==
    /\ (pc = "exited" /\ GeneratingRun /\ todo = <<>>) =>
          \A p \in Artifacts : \A q \in Artifacts :
              Collide(p, q) =>
                  /\ Reported(p) /\ Reported(q)
                  /\ BuilderOf(p) \notin DOMAIN fs /\ BuilderOf(q) \notin DOMAIN fs
    /\ registry # None =>
          \A i \in 1..Len(registry[1].imports) : \A j \in 1..Len(registry[1].imports) :
              i # j => registry[1].imports[i].var # registry[1].imports[j].var

\* the builder files of the category directories that a generator wrote
GeneratedBuilders ==
    {p \in DOMAIN fs :
        /\ p.dir # "builder"
        /\ fs[p].kind = "builder"
        /\ fs[p].text.template # "manual"}

\* C9: when the registry has been assembled, every builder file a generator
\* wrote is imported under the sanitized name of its metadata, which is the
\* symbol the file exports, and is an element of the collection under it.
C9_RegistrySymbolIsExport ==
    pc = "assembled" =>
        \A p \in GeneratedBuilders :
            \E j \in 1..Len(registry[1].imports) :
                /\ registry[1].imports[j].from
                       = <<".", "/", p.dir, "/">> \o BaseName(p) \o <<".", "js">>
                /\ registry[1].imports[j].var = Sanitized(fs[p].text.metadata.name[1])
                /\ registry[1].imports[j].var = fs[p].text.export
                /\ \E k \in 1..Len(registry[1].array) :
                      /\ registry[1].array[k].kind = "element"
                      /\ registry[1].array[k].text = fs[p].text.export

\* C10: when two runs over one tree have both ended without a failure, the
\* second took the same descriptors as input as the first and left the same
\* builder files with the same texts.
C10_SecondRunChangesNothing ==
    (Len(runs_log) = 2 /\ runs_log[1].status = 0 /\ runs_log[2].status = 0) =>
        /\ runs_log[2].discovered = runs_log[1].discovered
        /\ runs_log[2].builders = runs_log[1].builders

---------------------------------------------------------------------------
(* C11.                                                                    *)

\* the descriptors of the category directories: not an index, not a plugin
\* migrated by hand
SourceArtifacts ==
    {p \in DOMAIN fs :
        /\ p.dir \in {"http", "state"}
        /\ fs[p].kind = "source"
        /\ BaseName(p) \notin {<<"index">>, <<"zustand">>}}

\* C11: when a run of a generator script has ended without a failure, every
\* descriptor of the tree that declares a name has its builder file in its own
\* directory, named after its base name, also when another directory holds a
\* descriptor of the same base name.
C11_EverySourceHasItsBuilder ==
    (pc = "exited" /\ GeneratingRun /\ exit_status = Some(0)) =>
        \A p \in SourceArtifacts : DeclaresAName(p) => BuilderOf(p) \in DOMAIN fs

---------------------------------------------------------------------------
(* C12, C13, C14: the registry text against the builder files of the tree. *)

\* the builder files of the category directories
CategoryBuilders ==
    {p \in DOMAIN fs : p.dir \in {"http", "state"}
                       /\ Len(p.name) > 4
                       /\ Slice(p.name, Len(p.name) - 3, Len(p.name))
                              = <<"-", "builder", ".", "ts">>}

\* C12: the runs of the assembler over one set of builder files wrote the same
\* text, whatever order the directories and their files were enumerated in.
C12_RunsWriteOneText ==
    \A i, j \in 1..Len(registry_log) : registry_log[i] = registry_log[j]

C12_Witness ==
    /\ Len(registry_log) = 2
    /\ Cardinality({p \in CategoryBuilders : p.dir = "http"}) >= 2
    /\ Cardinality({p \in CategoryBuilders : p.dir = "state"}) >= 1

\* the category and the discovery name an import path names, and the file name
\* of its builder
ImportCategory(im) == <<im.from[3]>>

ImportName(im) == Slice(im.from, 5, Len(im.from) - 4)

ImportFile(im) == ImportName(im) \o <<"-", "builder", ".", "ts">>

\* the imports of the written text, the variables of its elements, the
\* categories of its comments
Imports == registry[1].imports

ElementVars ==
    Bind(SelectSeq(registry[1].array, LAMBDA l : l.kind = "element"),
         LAMBDA es : [k \in 1..Len(es) |-> es[k].text])

\* the category a comment names in capitals
Lower(t) ==
    CASE t = "HTTP" -> "http"
      [] t = "STATE" -> "state"
      [] OTHER -> t

CommentTexts ==
    Bind(SelectSeq(registry[1].array, LAMBDA l : l.kind = "comment"),
         LAMBDA cs : [k \in 1..Len(cs) |-> <<Lower(cs[k].text[1])>>])

\* the elements are the imported variables in the order of the imports, under
\* comments of ascending categories
ArrayFollowsImports ==
    /\ ElementVars = [k \in 1..Len(Imports) |-> Imports[k].var]
    /\ \A i, j \in 1..Len(CommentTexts) :
          i < j => StrLess(CommentTexts[i], CommentTexts[j])

\* C13 as the specification states it: ascending categories and, in a
\* category, ascending discovery names.
C13_ByDiscoveryName ==
    pc = "assembled" =>
        /\ ArrayFollowsImports
        /\ \A i, j \in 1..Len(Imports) :
              i < j =>
                \/ StrLess(ImportCategory(Imports[i]), ImportCategory(Imports[j]))
                \/ /\ ImportCategory(Imports[i]) = ImportCategory(Imports[j])
                   /\ StrLess(ImportName(Imports[i]), ImportName(Imports[j]))

\* C13: in the written text the categories ascend and, in a category, the
\* entries ascend by the name of their builder file (the discovery name
\* followed by -builder.ts); the elements follow the order of the imports.
C13_ByBuilderFileName ==
    pc = "assembled" =>
        /\ ArrayFollowsImports
        /\ \A i, j \in 1..Len(Imports) :
              i < j =>
                \/ StrLess(ImportCategory(Imports[i]), ImportCategory(Imports[j]))
                \/ /\ ImportCategory(Imports[i]) = ImportCategory(Imports[j])
                   /\ StrLess(ImportFile(Imports[i]), ImportFile(Imports[j]))

C13_Witness ==
    /\ pc = "assembled"
    /\ Path("http", <<"a", "-", "builder", ".", "ts">>) \in DOMAIN fs
    /\ Path("http", <<"a", "-", "a", "-", "builder", ".", "ts">>) \in DOMAIN fs
    /\ \E p \in CategoryBuilders : p.dir = "state"

\* the builder file an import path names
ImportedFile(im) == [dir |-> im.from[3], name |-> ImportFile(im)]

---------------------------------------------------------------------------
(* C15, C16, C18: the load of registry.ts.                                 *)

\* the collection s at the places K, in its order
RECURSIVE AtPlaces(_, _)
AtPlaces(s, K) ==
    IF K = {} THEN <<>>
    ELSE Bind(Min(K), LAMBDA j : <<s[j]>> \o AtPlaces(s, K \ {j}))

\* the diagnostics list: what validateRegistry gave to the log
Diagnostics == IF warning = <<>> THEN <<>> ELSE warning[1]

Callable(v) == v.type = "function"

\* an entry that the rule of section 4.6 accepts
WellFormed(p) ==
    /\ \A field \in {"name", "displayName", "description"} : p[field].type = "string"
    /\ p.category \in {[type |-> "string", val |-> <<<<"HTTP">>>>],
                       [type |-> "string", val |-> <<<<"STATE">>>>]}
    /\ p.frameworks.type = "array" /\ p.frameworks.val # <<>>
    /\ Callable(p.detect) /\ Callable(p.install) /\ Callable(p.configure)

EmptyFrameworks(p) == p.frameworks = [type |-> "array", val |-> <<>>]

\* K are the places of the collection that were kept: the validated set is the
\* entries at K, the diagnostics list has the name fields of the others, both
\* in the order of the collection
KeptAt(K) ==
    /\ validatedRegistry[1] = AtPlaces(pluginRegistry, K)
    /\ Diagnostics = Bind(AtPlaces(pluginRegistry, (1..Len(pluginRegistry)) \ K),
                          LAMBDA out : [k \in 1..Len(out) |-> out[k].name])
    /\ \A j \in 1..Len(pluginRegistry) :
          /\ EmptyFrameworks(pluginRegistry[j]) => j \notin K
          /\ WellFormed(pluginRegistry[j]) => j \in K

\* C15 as the specification states it: the load splits the collection and
\* every excluded entry is named in the diagnostics list.
C15_ExcludedIsNamed ==
    pc = "loaded" =>
        \E K \in SUBSET (1..Len(pluginRegistry)) :
            /\ KeptAt(K)
            /\ \A j \in (1..Len(pluginRegistry)) \ K :
                  pluginRegistry[j].name.type = "string"

\* C15: the load splits the collection: every entry is either in the validated
\* set or recorded in the diagnostics list by its name field (undefined when
\* the entry has no name), never both and never neither; an entry with an empty
\* frameworks list is excluded and recorded; every well-formed entry is in the
\* validated set, in the order of the collection.
C15_LoadSplitsTheCollection ==
    pc = "loaded" => \E K \in SUBSET (1..Len(pluginRegistry)) : KeptAt(K)

C15_Witness ==
    /\ pc = "loaded"
    /\ Len(pluginRegistry) = 3
    /\ WellFormed(pluginRegistry[1])
    /\ EmptyFrameworks(pluginRegistry[2])
    /\ WellFormed(pluginRegistry[3])
    /\ pluginRegistry[1] # pluginRegistry[3]
    /\ Len(validatedRegistry[1]) = 2
    /\ Len(Diagnostics) = 1

\* C16: no entry of the validated set, and no entry a query returns, lacks a
\* callable detect, install or configure.
C16_ValidatedHaveTheirCallbacks ==
    pc = "loaded" =>
        /\ \A k \in 1..Len(validatedRegistry[1]) :
              /\ Callable(validatedRegistry[1][k].detect)
              /\ Callable(validatedRegistry[1][k].install)
              /\ Callable(validatedRegistry[1][k].configure)
        /\ (answer # <<>> /\ answer[1].query = "getPluginById"
            /\ answer[1].value.type # "undefined") =>
              /\ Callable(answer[1].value.detect)
              /\ Callable(answer[1].value.install)
              /\ Callable(answer[1].value.configure)

\* the places of the collection that hold the widget plugin
WidgetPlaces ==
    {j \in 1..Len(pluginRegistry) :
        pluginRegistry[j].name = [type |-> "string", val |-> <<<<"widget">>>>]}

\* C18: the plugin built for a widget descriptor has a detect that looks up
\* widget in the dependencies, is in the validated set, is what
\* getPluginById("widget") returns and is among what
\* getPluginsByFramework("react") returns.
C18_WidgetIsQueryable ==
    pc = "loaded" =>
        \A j \in WidgetPlaces :
            /\ pluginRegistry[j].detect = [type |-> "function", val |-> <<<<"widget">>>>]
            /\ \E k \in 1..Len(validatedRegistry[1]) :
                  validatedRegistry[1][k] = pluginRegistry[j]
            /\ (answer # <<>> /\ answer[1].query = "getPluginById"
                /\ answer[1].arg = <<"widget">>) =>
                  answer[1].value = pluginRegistry[j]
            /\ (answer # <<>> /\ answer[1].query = "getPluginsByFramework"
                /\ answer[1].arg = <<"react">>) =>
                  \E k \in 1..Len(answer[1].value) :
                      answer[1].value[k] = pluginRegistry[j]

---------------------------------------------------------------------------
(* C17.                                                                    *)

\* an artifact of the run failed: a result line of the run reports a failure
SomeArtifactFailed == \E k \in 1..Len(printed) : ~printed[k].ok

\* C17: a run of a generator script ends with status 0 exactly when no
\* artifact of the run failed, and with another status exactly when one did;
\* a run that finds no artifact to process ends with status 0.
C17_StatusTellsFailure ==
    pc = "exited" =>
        /\ exit_status = <<0>> <=> ~SomeArtifactFailed
        /\ plugins = <<>> => exit_status = <<0>>

---------------------------------------------------------------------------
(* C19, C20: the passes of the loop of extract_function.                   *)

\* a pass of the loop is about to examine the character at pos
AtPass == pc = "scan" /\ pos <= Len(content)

\* the character examined is the one after a backslash: the pass consumes it
\* and nothing else changes
Consumed ==
    /\ pos' = pos + 1
    /\ in_string' = in_string
    /\ brace_count' = brace_count
    /\ pc' = "scan"

\* C19 as the specification states it: the escape flag is set only by a
\* backslash in a quoted span and cleared after one character; an escaped quote
\* mark does not end the span; outside a quoted span a brace or quote mark
\* counts also when a backslash stands before it.
C19_EscapeOnlyInSpan ==
    [][AtPass =>
        /\ escape' <=> (~escape /\ in_string /\ content[pos] = BS)
        /\ escape => pos' = pos + 1
        /\ (escape /\ in_string /\ content[pos] \in LiteralMarks) => in_string'
        /\ (~in_string /\ content[pos] \in LiteralMarks) => in_string'
        /\ (~in_string /\ content[pos] = "{") => brace_count' = brace_count + 1
        /\ (~in_string /\ content[pos] = "}") =>
              (pc' = "done" \/ brace_count' = brace_count - 1)]_vars

\* C19: the escape flag is set by a backslash met anywhere in the scan, in a
\* quoted span or outside one, unless the backslash is itself escaped, and is
\* cleared after exactly one following character; that character is consumed
\* whatever it is: an escaped quote mark does not end or open a span and an
\* escaped brace is not counted.
C19_EscapeAnywhere ==
    [][AtPass =>
        /\ escape' <=> (~escape /\ content[pos] = BS)
        /\ escape => Consumed]_vars

\* a closing brace that follows a backslash outside a quoted span at depth zero
\* was passed and the scan went on
C19_Witness ==
    /\ pc = "scan"
    /\ pos = start_brace + 3
    /\ content[pos - 2] = BS
    /\ content[pos - 1] = "}"
    /\ ~in_string
    /\ ~escape
    /\ brace_count = 0

\* the pass returns: on a closing brace at depth zero outside a quoted span
\* that no backslash escapes
Returns ==
    /\ ~escape /\ ~in_string /\ brace_count = 0 /\ content[pos] = "}"

---------------------------------------------------------------------------
(* C21.                                                                    *)

\* where the function of role starts in the source text, 0 when it has none
FunctionStart(c, role) ==
    LET starts == {i \in 1..(Len(c) - 3) :
                      /\ c[i] = "async" /\ c[i + 1] = " "
                      /\ c[i + 2] = role /\ c[i + 3] = "("}
    IN  IF starts = {} THEN 0 ELSE Min(starts)

\* the opening brace of the function: the brace that stands after the return
\* type Promise<...> of its signature, 0 when there is none
FunctionBrace(c, role) ==
    LET st == FunctionStart(c, role)
        braces == {b \in (st + 3)..Len(c) :
                      /\ st # 0
                      /\ c[b] = "{" /\ c[b - 1] = " " /\ c[b - 2] = ">"}
    IN  IF braces = {} THEN 0 ELSE Min(braces)

\* a text without the blanks around it
Trimmed(t) ==
    LET ink == {j \in 1..Len(t) : t[j] \notin {" ", "\n", "\t"}}
    IN  IF ink = {} THEN <<>> ELSE SubSeq(t, Min(ink), Max(ink))

\* the body of the function of role: the text strictly between its opening
\* brace and the matching closing brace, trimmed
FunctionBody(c, role) ==
    LET b == FunctionBrace(c, role)
    IN  Trimmed(SubSeq(c, b + 1, MatchingBrace(c, b) - 1))

\* the function of role is there with both its braces
FunctionFound(c, role) ==
    /\ FunctionBrace(c, role) # 0
    /\ MatchingBrace(c, FunctionBrace(c, role)) # 0

\* C21: every body that the builder text of migrate-plugins-advanced.py wraps
\* for a role whose function is found is the text strictly between the opening
\* brace of that function and the matching closing brace, trimmed, also when
\* the parameter list or the return type holds braces.
C21_BodyIsBetweenTheBraces ==
    (pc = "done" /\ ~builder["advanced"].raised) =>
        LET text == builder["advanced"].text
        IN  \A r \in 1..3 :
              FunctionFound(content, Roles[r]) =>
                \A j \in StepsFor(text, Roles[r]) :
                    text.steps[j].kind = "extracted" =>
                        text.steps[j].body = FunctionBody(content, Roles[r])

---------------------------------------------------------------------------
(* C22.                                                                    *)

\* the import path of a builder file: ./<category>/<stem>.js
PathOfFile(p) ==
    <<".", "/", p.dir, "/">> \o SubSeq(p.name, 1, Len(p.name) - 2) \o <<".", "js">>

\* the import paths of the written text
ImportPaths == {Imports[k].from : k \in 1..Len(Imports)}

\* C22: the import paths of the written text are the paths of the builder
\* files found in the category directories, ./<category>/<stem>.js for the
\* file <category>/<stem>.ts, also when the plugin name holds the text -builder.
C22_PathsNameTheFilesFound ==
    pc = "assembled" =>
        ImportPaths = {PathOfFile(p) : p \in CategoryBuilders}

====
